---------------------------- MODULE Spec2Model ----------------------------
(***************************************************************************)
(* Model of the background-removal pixel pass of                           *)
(* src/src/components/BackgroundRemoval.tsx (removeBackground, lines       *)
(* 40-164) together with the component state that surrounds it.            *)
(*                                                                         *)
(* Arithmetic.  The source computes in IEEE doubles:                       *)
(*     brightness    = (r + g + b) / 3                                     *)
(*     colorVariance = sqrt(((r-m)^2 + (g-m)^2 + (b-m)^2) / 3),  m = brightness *)
(* The model keeps the exact integers                                      *)
(*     brightness3(r,g,b)    = 3 * brightness     = r + g + b              *)
(*     colorVariance9(r,g,b) = 9 * colorVariance^2                         *)
(*                           = (r-g)^2 + (g-b)^2 + (r-b)^2                 *)
(* and every threshold multiplied by 10 (sensitivity is an integer, the    *)
(* factors are 0.8, 0.4, 0.2, 0.3), so that each comparison of the source  *)
(* is an integer comparison.  For all bytes r,g,b and all integer          *)
(* sensitivities 0..100 the double comparison and the integer comparison   *)
(* agree (the only ties are on gray pixels, where the doubles are exact).  *)
(***************************************************************************)
EXTENDS Integers, Naturals, Sequences, FiniteSets, TLC

(***************************************************************************)
(* Bounds of the model.                                                    *)
(***************************************************************************)
MaxSmallDim == 2
MaxRawLen == 9
MaxBatch == 2
MaxFileLen == 4
MaxImageSide == 5
MaxLimit == 5
MaxPdfSize == 3
MaxAnyPixels == 4

(***************************************************************************)
(* Program constants.                                                      *)
(***************************************************************************)
EdgeMargin == 10
InitialSensitivity == 50
MinSensitivity == 0
MaxSensitivity == 100
MaxChannel == 255
InitialCompressionLevel == 6
InitialMaxWidth == 1920
InitialMaxHeight == 1080
MinCompressionLevel == 1
MaxCompressionLevel == 10

\* The value JavaScript yields when a typed array is read past its end
\* (undefined, which turns every arithmetic result into NaN).
NaN == -1

(***************************************************************************)
(* Inputs: sensitivities of the range slider, pixel colours, images.       *)
(***************************************************************************)
Sensitivities == {0, 50, 100}

ProcessingModes == {"auto", "manual"}

\* RGBA colours the decoded images are made of.
Palette ==
  << <<255, 255, 255, 255>>,    \* white
     <<255, 250, 235, 255>>,    \* warm white, slight colour variance
     <<128, 128, 128, 255>>,    \* mid gray
     <<160, 160, 160, 128>>,    \* light gray, half transparent
     <<200, 150, 120, 255>>,    \* skin tone
     <<255,   0,   0, 255>>,    \* saturated red
     <<255, 255, 110, 255>>,    \* pale yellow, bright with variance 68.4
     << 60,  60,  60, 255>>,    \* dark gray
     << 90,  90,  90,   0>> >>  \* gray, already transparent

PaletteSize == Len(Palette)

ImageKinds == {"uniform", "cycle"}

\* Colour of pixel number k of an image of the given kind starting at
\* palette entry c.
PixelColour(kind, c, k) ==
  IF kind = "uniform" THEN Palette[c]
  ELSE Palette[((c - 1 + k) % PaletteSize) + 1]

\* Palette entries a "cycle" image may start at.
CycleStarts == {1, 5}

ImageContents ==
  {[kind |-> "uniform", c |-> c] : c \in 1..PaletteSize}
     \cup {[kind |-> "cycle", c |-> c] : c \in CycleStarts}

\* An image file, named by what decoding it yields: its width and height,
\* its colours, and the length of its RGBA buffer.
ImageOf(w, h, content, len) ==
  [w |-> w, h |-> h, kind |-> content.kind, c |-> content.c, len |-> len]

\* The RGBA buffer of an image: row-major, 4 bytes per pixel.
DecodedPixels(img) ==
  [j \in 1..img.len |->
      PixelColour(img.kind, img.c, (j - 1) \div 4)[((j - 1) % 4) + 1]]

Shapes ==
  ((1..MaxSmallDim) \X (1..MaxSmallDim))
     \cup {<<2 * EdgeMargin, 2 * EdgeMargin>>}

\* What drawImage and getImageData yield: length = width * height * 4.
Images ==
  {ImageOf(sh[1], sh[2], content, sh[1] * sh[2] * 4) :
      sh \in Shapes, content \in ImageContents}

\* Buffers the loop could be handed by a caller that does not go through
\* getImageData: any length up to MaxRawLen, with any claimed width and
\* height.
RawImages ==
  {ImageOf(w, h, content, n) :
      w \in 1..2, h \in 1..2, content \in ImageContents, n \in 1..MaxRawLen}

\* Images of at most MaxAnyPixels pixels, for the order-free pass.
AnyOrderShapes ==
  {sh \in (1..MaxAnyPixels) \X (1..MaxAnyPixels) : sh[1] * sh[2] <= MaxAnyPixels}

AnyOrderImages ==
  {ImageOf(sh[1], sh[2], content, sh[1] * sh[2] * 4) :
      sh \in AnyOrderShapes, content \in ImageContents}

NoRun == [sens |-> -1, out |-> <<>>, cleared |-> {}]

(***************************************************************************)
(* State.                                                                  *)
(***************************************************************************)
VARIABLES
  image,            \* the file being processed (see ImageOf)
  sensitivity,      \* React state, line 22
  processingMode,   \* React state, line 20
  pc,               \* "idle", "loading", "loop", "anyloop", "done"
  captured,         \* sensitivity seen by the closure that runs the pass
  width, height,    \* lines 62-63
  data,             \* imageData.data, line 58
  i,                \* loop index, line 65
  todo,             \* pixels not yet processed (order-free pass only)
  cleared,          \* history: pixel indexes whose iteration reached line 133
  prev,             \* history: sensitivity and result of the previous pass
  source            \* history: "file", or "output" when the pass runs on the
                    \* buffer the previous pass produced

\* One pixel under the slider (the classification as a function).
VARIABLES
  px,               \* [r, g, b, x, y, w, h]: the pixel and its image's size
  pxSens,           \* sensitivity it is classified at
  pxRemoved,        \* isBackground at line 131 for it
  pxPrev            \* history: [s, removed] before the last slider move

\* A batch: images (line 17), one removeBackground invocation per image.
VARIABLES
  images,           \* React state, line 17
  isProcessing,     \* React state, line 19
  processedImages,  \* React state, line 18
  jobs,             \* per invocation: its promise and its canvas
  order             \* history: invocations in the order they resolved

\* The file compression component (FileCompression.tsx, lines 726-1125).
VARIABLES
  fcFile,           \* the selected file
  compressionLevel, \* React state, line 731
  fcLevel,          \* the compressionLevel the running compressFile closed over
  fcPc,             \* control position of compressFile for that file
  requests          \* history: files posted to the server

\* What compressFile works on and returns (FileCompression.tsx).
VARIABLES
  fcBytes,          \* content of the selected file
  fcResult,         \* the File compressFile resolved with, NoResult before
  fcHistory         \* history: what the server and compressPDF did in this run

\* The resize of the image compression component (ImageCompression.tsx).
VARIABLES
  imgSize,          \* img.width, img.height of the decoded image
  maxWidth,         \* React state, line 21
  maxHeight,        \* React state, line 22
  canvasSize        \* width, height at lines 49-50, as fractions; NoSize before

passVars == <<image, sensitivity, processingMode, pc, captured, width, height,
              data, i, todo, cleared, prev, source>>

pixelVars == <<px, pxSens, pxRemoved, pxPrev>>

batchVars == <<images, isProcessing, processedImages, jobs, order>>

fileVars == <<fcFile, compressionLevel, fcLevel, fcPc, requests>>

resultVars == <<fcBytes, fcResult, fcHistory>>

resizeVars == <<imgSize, maxWidth, maxHeight, canvasSize>>

vars == <<passVars, pixelVars, batchVars, fileVars, resultVars, resizeVars>>

(***************************************************************************)
(* The per-pixel classification, lines 66-129.                             *)
(***************************************************************************)
\* data[j] for a 0-based index j; undefined (NaN) past the end of the array.
At(d, j) == IF j < Len(d) THEN d[j + 1] ELSE NaN

\* data[j] = v; a store past the end of a typed array is ignored.
Store(d, j, v) == IF j < Len(d) THEN [d EXCEPT ![j + 1] = v] ELSE d

IsNumber(r, g, b) == r # NaN /\ g # NaN /\ b # NaN

\* 3 * brightness (line 76).
brightness3(r, g, b) == r + g + b

\* 9 * colorVariance^2 (lines 77-79).
colorVariance9(r, g, b) ==
  (r - g) * (r - g) + (g - b) * (g - b) + (r - b) * (r - b)

\* Variant: brightness threshold 180 + 0.8s.
brightnessThreshold10Rising(s) == 1800 + 8 * s

\* Variant: brightness threshold 180 - 0.4s.
brightnessThreshold10Half(s) == 1800 - 4 * s

\* Thresholds, times 10.
\* Line 85.
brightnessThreshold10(s) == 1800 - 8 * s

\* Mutant: the sign of line 86 slipped.
varianceThreshold10Minus(s) == 300 - 4 * s

\* Line 86.
varianceThreshold10(s) == 300 + 4 * s

\* Line 95.
whiteThreshold10(s) == 2400 - 2 * s

\* Mutant: the factor 0.3 of line 101 mistyped as 0.2.
darkThreshold10Slip(s) == 500 + 2 * s

\* Line 101.
darkThreshold10(s) == 500 + 3 * s

\* Variant: edge threshold 120 - 0.3s.
edgeThreshold10Typo(s) == 1200 - 3 * s

\* Line 107.
edgeThreshold10(s) == 1500 - 3 * s

\* brightness > t10/10   and   brightness < t10/10
BrightnessAbove(r, g, b, t10) == 10 * brightness3(r, g, b) > 3 * t10
BrightnessBelow(r, g, b, t10) == 10 * brightness3(r, g, b) < 3 * t10

\* colorVariance < t10/10   and   colorVariance > t10/10, for t10 >= 0
\* (colorVariance is a square root, never negative).
VarianceBelow(r, g, b, t10) ==
  t10 > 0 /\ 100 * colorVariance9(r, g, b) < 9 * t10 * t10
VarianceAbove(r, g, b, t10) ==
  t10 < 0 \/ 100 * colorVariance9(r, g, b) > 9 * t10 * t10

\* Line 89: solid colour background.
SolidBackground(r, g, b, s) ==
  /\ BrightnessAbove(r, g, b, brightnessThreshold10(s))
  /\ VarianceBelow(r, g, b, varianceThreshold10(s))

\* Line 96: white / very light background.
NearWhite(r, g, b, s) ==
  /\ 10 * r > whiteThreshold10(s)
  /\ 10 * g > whiteThreshold10(s)
  /\ 10 * b > whiteThreshold10(s)

\* Line 102: very dark background.
NearDark(r, g, b, s) ==
  /\ BrightnessBelow(r, g, b, darkThreshold10(s))
  /\ VarianceBelow(r, g, b, 200)

\* Variant: only the left and top margins count as edge.
isEdgeNearSides(x, y, w, h) == x < EdgeMargin \/ y < EdgeMargin

\* Line 108.
isEdge(x, y, w, h) ==
  x < EdgeMargin \/ x > w - EdgeMargin \/ y < EdgeMargin \/ y > h - EdgeMargin

\* Line 109: bright low-variance pixel near the border.
EdgeBackground(r, g, b, x, y, w, h, s) ==
  /\ isEdge(x, y, w, h)
  /\ BrightnessAbove(r, g, b, edgeThreshold10(s))
  /\ VarianceBelow(r, g, b, varianceThreshold10(s) + 100)

\* Lines 114-120.
isSkinTone(r, g, b) ==
  /\ r > 95 /\ r < 255
  /\ g > 40 /\ g < 200
  /\ b > 20 /\ b < 150
  /\ r > g /\ g > b
  /\ (r - g) > 15 /\ (g - b) > 15

\* Mutant: the 60 of line 127 mistyped as 70.
HighDetail70(r, g, b) == VarianceAbove(r, g, b, 700)

\* Mutant: the 60 of line 127 mistyped as 6.
HighDetail6(r, g, b) == VarianceAbove(r, g, b, 60)

\* Line 127.
HighDetail(r, g, b) == VarianceAbove(r, g, b, 600)

\* The four detections of lines 89-111; every comparison with NaN is false.
Detected(r, g, b, x, y, w, h, s) ==
  /\ IsNumber(r, g, b)
  /\ \/ SolidBackground(r, g, b, s)
     \/ NearWhite(r, g, b, s)
     \/ NearDark(r, g, b, s)
     \/ EdgeBackground(r, g, b, x, y, w, h, s)

\* Mutant: automatic detection only in the "auto" processing mode.
isBackgroundAutoOnly(r, g, b, x, y, w, h, s) ==
  /\ processingMode = "auto"
  /\ ~(IsNumber(r, g, b) /\ HighDetail(r, g, b))
  /\ ~(IsNumber(r, g, b) /\ isSkinTone(r, g, b))
  /\ Detected(r, g, b, x, y, w, h, s)

\* Mutant: the edge check of lines 106-111 moved after the two overrides.
isBackgroundEdgeLast(r, g, b, x, y, w, h, s) ==
  IF IsNumber(r, g, b) /\ EdgeBackground(r, g, b, x, y, w, h, s) THEN TRUE
  ELSE IF IsNumber(r, g, b) /\ HighDetail(r, g, b) THEN FALSE
  ELSE IF IsNumber(r, g, b) /\ isSkinTone(r, g, b) THEN FALSE
  ELSE Detected(r, g, b, x, y, w, h, s)

\* Variant: a pixel the solid-background rule detects is background
\* whatever its colour variance.
isBackgroundSolidFirst(r, g, b, x, y, w, h, s) ==
  IF IsNumber(r, g, b) /\ SolidBackground(r, g, b, s) THEN TRUE
  ELSE IF IsNumber(r, g, b) /\ HighDetail(r, g, b) THEN FALSE
  ELSE IF IsNumber(r, g, b) /\ isSkinTone(r, g, b) THEN FALSE
  ELSE Detected(r, g, b, x, y, w, h, s)

\* Value of isBackground at line 131: the detections, then the two
\* overrides of lines 122-129.
isBackground(r, g, b, x, y, w, h, s) ==
  IF IsNumber(r, g, b) /\ HighDetail(r, g, b) THEN FALSE
  ELSE IF IsNumber(r, g, b) /\ isSkinTone(r, g, b) THEN FALSE
  ELSE Detected(r, g, b, x, y, w, h, s)

\* Whether the iteration at byte index idx reaches line 133.
PixelIsBackground(d, idx, w, h, s) ==
  LET pixelIndex == idx \div 4
  IN  isBackground(At(d, idx), At(d, idx + 1), At(d, idx + 2),
                   pixelIndex % w, pixelIndex \div w, w, h, s)

\* Mutant: a pixel next to an already transparent pixel is background too.
LoopBodyNeighbour(d, idx, w, h, s) ==
  IF PixelIsBackground(d, idx, w, h, s) \/ (idx >= 4 /\ At(d, idx - 1) = 0)
  THEN Store(d, idx + 3, 0) ELSE d

\* Mutant: line 133 halves the alpha instead of clearing it.
LoopBodyHalves(d, idx, w, h, s) ==
  IF PixelIsBackground(d, idx, w, h, s)
  THEN Store(d, idx + 3, At(d, idx + 3) \div 2) ELSE d

\* Mutant: line 133 writes index i + 2.
LoopBodyOffByOne(d, idx, w, h, s) ==
  IF PixelIsBackground(d, idx, w, h, s) THEN Store(d, idx + 2, 0) ELSE d

\* Variant: line 133 flips the alpha byte instead of zeroing it.
LoopBodyInvert(d, idx, w, h, s) ==
  IF PixelIsBackground(d, idx, w, h, s)
  THEN Store(d, idx + 3, MaxChannel - At(d, idx + 3))
  ELSE d

\* One iteration of the loop of lines 65-135 at byte index idx.
LoopBody(d, idx, w, h, s) ==
  IF PixelIsBackground(d, idx, w, h, s) THEN Store(d, idx + 3, 0) ELSE d

\* The whole loop, from byte index idx to the end, as one function.
RECURSIVE PassFrom(_, _, _, _, _)
PassFrom(d, idx, w, h, s) ==
  IF idx < Len(d) THEN PassFrom(LoopBody(d, idx, w, h, s), idx + 4, w, h, s)
  ELSE d

\* The sensitivity the loop reads at lines 85-107.
LoopSensitivity == captured

PassInit ==
  /\ sensitivity = InitialSensitivity
  /\ processingMode = "auto"
  /\ pc = "idle"
  /\ captured = InitialSensitivity
  /\ width = 0 /\ height = 0
  /\ data = <<>>
  /\ i = 0
  /\ todo = {}
  /\ cleared = {}
  /\ prev = NoRun
  /\ source = "file"

\* No pixel, no batch, no file to compress.
NoPixel == [r |-> 0, g |-> 0, b |-> 0, x |-> 0, y |-> 0, w |-> 1, h |-> 1]

PixelIdle ==
  /\ px = NoPixel
  /\ pxSens = InitialSensitivity
  /\ pxRemoved = FALSE
  /\ pxPrev = [s |-> InitialSensitivity, removed |-> FALSE]

BatchIdle ==
  /\ images = <<>>
  /\ isProcessing = FALSE
  /\ processedImages = <<>>
  /\ jobs = <<>>
  /\ order = <<>>

NoFile == [name |-> <<"">>]

FileIdle ==
  /\ fcFile = NoFile
  /\ compressionLevel = InitialCompressionLevel
  /\ fcLevel = InitialCompressionLevel
  /\ fcPc = "idle"
  /\ requests = {}

NoResult == [name |-> <<>>, kind |-> "none", size |-> 0, bytes |-> <<>>]

NoHistory ==
  [server |-> "none", client |-> "none", pagesFailed |-> FALSE,
   quality |-> 0, scale |-> 0, compressedSize |-> 0]

ResultIdle ==
  /\ fcBytes = <<>>
  /\ fcResult = NoResult
  /\ fcHistory = NoHistory

NoSize ==
  [width |-> [n |-> 0, d |-> 1], height |-> [n |-> 0, d |-> 1],
   maxWidth |-> 0, maxHeight |-> 0]

ResizeIdle ==
  /\ imgSize = [width |-> 1, height |-> 1]
  /\ maxWidth = InitialMaxWidth
  /\ maxHeight = InitialMaxHeight
  /\ canvasSize = NoSize

InitState ==
  PassInit /\ PixelIdle /\ BatchIdle /\ FileIdle /\ ResultIdle /\ ResizeIdle

Init == image \in Images /\ InitState

InitRaw == image \in RawImages /\ InitState

InitAny == image \in AnyOrderImages /\ InitState

(***************************************************************************)
(* Actions.                                                                *)
(***************************************************************************)
\* Line 261: the range slider.  The pass itself is one synchronous task, so
\* no event is handled while it runs.
SetSensitivity ==
  /\ pc \in {"idle", "loading", "done"}
  /\ \E s \in Sensitivities : sensitivity' = s
  /\ sensitivity' # sensitivity
  /\ UNCHANGED <<image, processingMode, pc, captured, width, height, data, i,
                 todo, cleared, prev>>
  /\ UNCHANGED <<source, pixelVars, batchVars, fileVars, resultVars, resizeVars>>

\* Lines 233, 244: the mode radio buttons.
SetProcessingMode ==
  /\ pc \in {"idle", "loading", "done"}
  /\ \E m \in ProcessingModes : processingMode' = m
  /\ processingMode' # processingMode
  /\ UNCHANGED <<image, sensitivity, pc, captured, width, height, data, i,
                 todo, cleared, prev>>
  /\ UNCHANGED <<source, pixelVars, batchVars, fileVars, resultVars, resizeVars>>

\* Lines 166-175 and 40-44, 162: the button (disabled while processing)
\* starts a pass; the closure keeps the sensitivity of this render.
handleProcessImages ==
  /\ pc \in {"idle", "done"}
  /\ pc' = "loading"
  /\ captured' = sensitivity
  /\ prev' = IF pc = "done"
             THEN [sens |-> captured, out |-> data, cleared |-> cleared]
             ELSE prev
  /\ UNCHANGED <<image, sensitivity, processingMode, width, height, data, i,
                 todo, cleared>>
  /\ UNCHANGED <<source, pixelVars, batchVars, fileVars, resultVars, resizeVars>>

\* Lines 46-63: img.onload draws the image on a fresh canvas and reads it.
onload ==
  /\ pc = "loading"
  /\ pc' = "loop"
  /\ width' = image.w
  /\ height' = image.h
  /\ data' = DecodedPixels(image)
  /\ i' = 0
  /\ cleared' = {}
  /\ UNCHANGED <<image, sensitivity, processingMode, captured, todo, prev>>
  /\ source' = "file"
  /\ UNCHANGED <<pixelVars, batchVars, fileVars, resultVars, resizeVars>>

\* Lines 65-135: one iteration.
PixelStep ==
  /\ pc = "loop"
  /\ i < Len(data)
  /\ data' = LoopBody(data, i, width, height, LoopSensitivity)
  /\ cleared' = IF PixelIsBackground(data, i, width, height, LoopSensitivity)
                THEN cleared \cup {i \div 4} ELSE cleared
  /\ i' = i + 4
  /\ UNCHANGED <<image, sensitivity, processingMode, pc, captured, width,
                 height, todo, prev>>
  /\ UNCHANGED <<source, pixelVars, batchVars, fileVars, resultVars, resizeVars>>

\* Lines 65, 137-159: the loop ends, the buffer is put back and encoded.
LoopExit ==
  /\ pc = "loop"
  /\ ~(i < Len(data))
  /\ pc' = "done"
  /\ UNCHANGED <<image, sensitivity, processingMode, captured, width, height,
                 data, i, todo, cleared, prev>>
  /\ UNCHANGED <<source, pixelVars, batchVars, fileVars, resultVars, resizeVars>>

Next ==
  \/ SetSensitivity
  \/ SetProcessingMode
  \/ handleProcessImages
  \/ onload
  \/ PixelStep
  \/ LoopExit

Spec == Init /\ [][Next]_vars

\* The same program, its loop handed an arbitrary buffer, width and height.
SpecRaw == InitRaw /\ [][Next]_vars

(***************************************************************************)
(* The pass with the pixels taken in an arbitrary order.                   *)
(***************************************************************************)
onloadAny ==
  /\ pc = "loading"
  /\ pc' = "anyloop"
  /\ width' = image.w
  /\ height' = image.h
  /\ data' = DecodedPixels(image)
  /\ i' = 0
  /\ todo' = 0..((image.len \div 4) - 1)
  /\ cleared' = {}
  /\ UNCHANGED <<image, sensitivity, processingMode, captured, prev>>
  /\ source' = "file"
  /\ UNCHANGED <<pixelVars, batchVars, fileVars, resultVars, resizeVars>>

AnyStep ==
  /\ pc = "anyloop"
  /\ \E k \in todo :
       /\ data' = LoopBody(data, 4 * k, width, height, LoopSensitivity)
       /\ cleared' = IF PixelIsBackground(data, 4 * k, width, height,
                                          LoopSensitivity)
                     THEN cleared \cup {k} ELSE cleared
       /\ i' = 4 * k
       /\ todo' = todo \ {k}
  /\ UNCHANGED <<image, sensitivity, processingMode, pc, captured, width,
                 height, prev>>
  /\ UNCHANGED <<source, pixelVars, batchVars, fileVars, resultVars, resizeVars>>

AnyExit ==
  /\ pc = "anyloop"
  /\ todo = {}
  /\ pc' = "done"
  /\ UNCHANGED <<image, sensitivity, processingMode, captured, width, height,
                 data, i, todo, cleared, prev>>
  /\ UNCHANGED <<source, pixelVars, batchVars, fileVars, resultVars, resizeVars>>

NextAny ==
  \/ SetSensitivity
  \/ SetProcessingMode
  \/ handleProcessImages
  \/ onloadAny
  \/ AnyStep
  \/ AnyExit

SpecAnyOrder == InitAny /\ [][NextAny]_vars

(***************************************************************************)
(* Properties.  They speak of the input of the current pass: byte j        *)
(* (0-based) of the buffer getImageData returned, and its pixels.          *)
(***************************************************************************)
InputAt(j) == PixelColour(image.kind, image.c, j \div 4)[(j % 4) + 1]

\* Number of loop iterations = number of pixels of a well-formed buffer.
Pixels == 0..((image.len \div 4) - 1)

InR(k) == InputAt(4 * k)
InG(k) == InputAt(4 * k + 1)
InB(k) == InputAt(4 * k + 2)
InA(k) == InputAt(4 * k + 3)
OutA(k) == data[4 * k + 4]
PixelX(k) == k % image.w
PixelY(k) == k \div image.w

\* The condition of claim C1, written from the claim: thresholds
\* 180-0.8s, 30+0.4s, 240-0.2s, 50+0.3s, 150-0.3s, all times 10;
\* q = 9 * colorVariance^2, sum = 3 * brightness.
C1Condition(r, g, b, x, y, w, h, s) ==
  LET sum == r + g + b
      q == 3 * (r * r + g * g + b * b) - sum * sum
      solid == 10 * sum > 3 * (1800 - 8 * s)
                 /\ 100 * q < 9 * (300 + 4 * s) * (300 + 4 * s)
      white == 10 * r > 2400 - 2 * s /\ 10 * g > 2400 - 2 * s
                 /\ 10 * b > 2400 - 2 * s
      black == 10 * sum < 3 * (500 + 3 * s) /\ q < 9 * 20 * 20
      edge  == (x < 10 \/ x > w - 10 \/ y < 10 \/ y > h - 10)
                 /\ 10 * sum > 3 * (1500 - 3 * s)
                 /\ 100 * q < 9 * (400 + 4 * s) * (400 + 4 * s)
      skin  == 95 < r /\ r < 255 /\ 40 < g /\ g < 200 /\ 20 < b /\ b < 150
                 /\ r > g /\ g > b /\ r - g > 15 /\ g - b > 15
  IN  (solid \/ white \/ black \/ edge) /\ ~skin /\ q <= 9 * 60 * 60

\* C1: when the pass over a well-formed buffer is done, a pixel's alpha was
\* set to 0 exactly when a detection rule holds, the pixel is no skin tone
\* and its colour variance is at most 60; every other alpha is the input's.
Thm_C1 ==
  pc = "done" =>
    \A k \in Pixels :
      /\ (k \in cleared) <=>
           C1Condition(InR(k), InG(k), InB(k), PixelX(k), PixelY(k),
                       width, height, captured)
      /\ OutA(k) = IF k \in cleared THEN 0 ELSE InA(k)

\* A finished pass over a 20x20 image at sensitivity 0 in which the light
\* gray pixel in the middle is kept while light gray pixels of the edge
\* band are removed, and a skin pixel is kept.
Wit_C1 ==
  /\ pc = "done" /\ captured = 0
  /\ image.w = 2 * EdgeMargin /\ image.h = 2 * EdgeMargin
  /\ \E k \in Pixels :
       /\ ~isEdge(PixelX(k), PixelY(k), width, height)
       /\ InR(k) = 160 /\ k \notin cleared /\ OutA(k) = 128
  /\ \E k \in Pixels : InR(k) = 160 /\ k \in cleared /\ OutA(k) = 0
  /\ \E k \in Pixels : isSkinTone(InR(k), InG(k), InB(k)) /\ k \notin cleared

\* C2: the output alpha of every pixel is its input alpha or 0.
Thm_C2 ==
  pc = "done" => \A k \in Pixels : OutA(k) \in {InA(k), 0}

\* A finished pass that left a half-transparent alpha as it was and set
\* another half-transparent alpha to 0.
Wit_C2 ==
  /\ pc = "done"
  /\ \E k \in Pixels : InA(k) = 128 /\ OutA(k) = 128
  /\ \E k \in Pixels : InA(k) = 128 /\ OutA(k) = 0

\* C3: the pass never changes the length of the buffer, and when it is done
\* every R, G and B byte is the input's.
Thm_C3 ==
  /\ pc \in {"loop", "done"} => Len(data) = image.len
  /\ pc = "done" =>
       \A j \in 0..(image.len - 1) : j % 4 # 3 => data[j + 1] = InputAt(j)

\* A finished pass that cleared some alpha and kept some.
Wit_C3 ==
  /\ pc = "done"
  /\ image.len = 2 * EdgeMargin * 2 * EdgeMargin * 4
  /\ cleared # {} /\ cleared # Pixels

\* C4: a pass that runs again with the sensitivity of the previous pass, on
\* the same image, ends with the same bytes (and cleared the same pixels),
\* whatever the other state of the component has become in between.
Thm_C4 ==
  (pc = "done" /\ prev # NoRun /\ prev.sens = captured) =>
    (data = prev.out /\ cleared = prev.cleared)

\* A second pass at the sensitivity of the first, finished after the mode
\* and the slider were changed, that cleared some pixels.
Wit_C4 ==
  /\ pc = "done" /\ prev # NoRun /\ prev.sens = captured
  /\ processingMode = "manual" /\ sensitivity # captured
  /\ image.len > 4 /\ cleared # {} /\ cleared # Pixels

\* C5 as claimed: a buffer whose length is not width*height*4 is rejected:
\* the loop changes no byte of it and the pass never completes normally.
Malformed == image.len # image.w * image.h * 4

C6Skin(r, g, b) ==
  /\ 95 < r /\ r < 255 /\ 40 < g /\ g < 200 /\ 20 < b /\ b < 150
  /\ r > g /\ g > b /\ r - g > 15 /\ g - b > 15

\* C6: a pixel that satisfies the skin-tone predicate is never cleared: its
\* alpha is the input's right after its iteration and at the end of the pass.
Thm_C6 ==
  /\ (pc = "loop" /\ i > 0) =>
       LET k == (i - 4) \div 4
       IN  C6Skin(InR(k), InG(k), InB(k)) =>
             (k \notin cleared /\ OutA(k) = InA(k))
  /\ pc = "done" =>
       \A k \in Pixels :
         C6Skin(InR(k), InG(k), InB(k)) => (k \notin cleared /\ OutA(k) = InA(k))

\* A finished pass with a skin pixel (200,150,120) in the edge band for which
\* the solid-background and the edge detections both hold, and which kept
\* its alpha.
Wit_C6 ==
  /\ pc = "done"
  /\ \E k \in Pixels :
       /\ InR(k) = 200 /\ InG(k) = 150 /\ InB(k) = 120
       /\ SolidBackground(InR(k), InG(k), InB(k), captured)
       /\ EdgeBackground(InR(k), InG(k), InB(k), PixelX(k), PixelY(k),
                         width, height, captured)
       /\ k \notin cleared /\ OutA(k) = 255

\* 9 * colorVariance^2 > 9 * 60^2, written from claim C7.
C7HighVariance(r, g, b) ==
  LET sum == r + g + b
  IN  3 * (r * r + g * g + b * b) - sum * sum > 9 * 60 * 60

\* C7: a pixel whose colour variance exceeds 60 is never cleared: its alpha
\* is the input's right after its iteration and at the end of the pass.
Thm_C7 ==
  /\ (pc = "loop" /\ i > 0) =>
       LET k == (i - 4) \div 4
       IN  C7HighVariance(InR(k), InG(k), InB(k)) =>
             (k \notin cleared /\ OutA(k) = InA(k))
  /\ pc = "done" =>
       \A k \in Pixels :
         C7HighVariance(InR(k), InG(k), InB(k)) =>
           (k \notin cleared /\ OutA(k) = InA(k))

\* A finished pass with a pixel of variance above 60 for which a detection
\* holds (pale yellow at sensitivity 100) and a pixel (255,0,0), both kept.
Wit_C7 ==
  /\ pc = "done"
  /\ \E k \in Pixels :
       /\ C7HighVariance(InR(k), InG(k), InB(k))
       /\ Detected(InR(k), InG(k), InB(k), PixelX(k), PixelY(k),
                   width, height, captured)
       /\ k \notin cleared /\ OutA(k) = 255
  /\ \E k \in Pixels :
       InR(k) = 255 /\ InG(k) = 0 /\ InB(k) = 0 /\ k \notin cleared

\* C8: of two successive passes on the same image, one at sensitivity 0 and
\* one at sensitivity 100, the one at 100 clears at least as many pixels.
Thm_C8 ==
  (pc = "done" /\ prev # NoRun) =>
    /\ (prev.sens = 0 /\ captured = 100) =>
          Cardinality(cleared) >= Cardinality(prev.cleared)
    /\ (prev.sens = 100 /\ captured = 0) =>
          Cardinality(prev.cleared) >= Cardinality(cleared)

\* A pass at 0 that cleared some pixels of a 20x20 image followed by a
\* finished pass at 100 that cleared strictly more.
Wit_C8 ==
  /\ pc = "done" /\ prev # NoRun /\ prev.sens = 0 /\ captured = 100
  /\ image.w = 2 * EdgeMargin
  /\ prev.cleared # {}
  /\ Cardinality(cleared) > Cardinality(prev.cleared)

\* C9: when the pixels are processed in an arbitrary order, the buffer at
\* the end is the one the row-major loop produces.
Thm_C9 ==
  pc = "done" =>
    data = PassFrom(DecodedPixels(image), 0, width, height, captured)

\* An order-free pass over four pixels that processed pixel 0 last,
\* cleared some pixels and kept some.
Wit_C9 ==
  /\ pc = "done" /\ image.len = 16 /\ i = 0
  /\ cleared # {} /\ cleared # Pixels

\* C10: a pixel whose R, G and B all exceed 240 - 0.2s is cleared; a 20x20
\* image of (255,255,255) at sensitivity 50 ends with every alpha 0.
Thm_C10 ==
  pc = "done" =>
    /\ \A k \in Pixels :
         (10 * InR(k) > 2400 - 2 * captured
            /\ 10 * InG(k) > 2400 - 2 * captured
            /\ 10 * InB(k) > 2400 - 2 * captured)
           => (k \in cleared /\ OutA(k) = 0)
    /\ (image.w = 20 /\ image.h = 20 /\ captured = 50
          /\ \A k \in Pixels : InR(k) = 255 /\ InG(k) = 255 /\ InB(k) = 255)
         => \A k \in Pixels : OutA(k) = 0

\* The finished pass over the 20x20 white image at sensitivity 50.
Wit_C10 ==
  /\ pc = "done" /\ image.w = 20 /\ image.h = 20 /\ captured = 50
  /\ \A k \in Pixels : InR(k) = 255 /\ InG(k) = 255 /\ InB(k) = 255
  /\ cleared = Pixels
  /\ \A k \in Pixels : OutA(k) = 0

\* The 20x20 image of uniform (128,128,128), processed at sensitivity 0.
C11Case ==
  /\ image.w = 20 /\ image.h = 20 /\ captured = 0
  /\ \A k \in Pixels : InR(k) = 128 /\ InG(k) = 128 /\ InB(k) = 128

\* C11: in the pass over the 20x20 image of uniform (128,128,128) at
\* sensitivity 0 no detection rule holds for any pixel, so no pixel is
\* cleared and every alpha byte stays what it was.
Thm_C11 ==
  (pc \in {"loop", "done"} /\ C11Case) =>
    /\ \A k \in Pixels :
         ~Detected(InR(k), InG(k), InB(k), PixelX(k), PixelY(k),
                   width, height, captured)
    /\ cleared = {}
    /\ data = DecodedPixels(image)

\* The finished pass over that image, all 400 pixels visited, none cleared.
Wit_C11 ==
  /\ pc = "done" /\ C11Case
  /\ i = 1600 /\ Len(data) = 1600
  /\ \A k \in Pixels : OutA(k) = 255

(***************************************************************************)
(* One pixel under the slider.  The value isBackground has at line 131     *)
(* depends on the pixel's r, g, b, its position, the image's width and     *)
(* height and the sensitivity only, so the effect of the slider on a pixel *)
(* is followed for one pixel at a time: every gray level and a sample of   *)
(* colours, inside and outside the edge band, at every slider position.    *)
(***************************************************************************)
PixelImageSide == 4 * EdgeMargin

\* The two corners of the non-edge square and an edge position next to
\* one of them.
PixelPositions == {<<10, 10>>, <<30, 30>>, <<30, 31>>}

PixelChannelSamples == {0, 110, 127, 200, MaxChannel}

PixelColours ==
  {<<v, v, v>> : v \in 0..MaxChannel}
     \cup (PixelChannelSamples \X PixelChannelSamples \X PixelChannelSamples)

PixelOf(c, pos) ==
  [r |-> c[1], g |-> c[2], b |-> c[3], x |-> pos[1], y |-> pos[2],
   w |-> PixelImageSide, h |-> PixelImageSide]

\* Whether the pass at sensitivity s reaches line 133 for pixel p.
PixelRemovedAt(p, s) == isBackground(p.r, p.g, p.b, p.x, p.y, p.w, p.h, s)

InitPixel ==
  /\ image \in {ImageOf(1, 1, [kind |-> "uniform", c |-> 1], 4)}
  /\ PassInit /\ BatchIdle /\ FileIdle /\ ResultIdle /\ ResizeIdle
  /\ px \in {PixelOf(c, pos) : c \in PixelColours, pos \in PixelPositions}
  /\ pxSens = InitialSensitivity
  /\ pxRemoved = PixelRemovedAt(px, InitialSensitivity)
  /\ pxPrev = [s |-> InitialSensitivity, removed |-> pxRemoved]

\* The slider moves one step and the pixel is classified again.
SlidePixel ==
  \E s \in {pxSens - 1, pxSens + 1} :
    /\ s \in MinSensitivity..MaxSensitivity
    /\ pxPrev' = [s |-> pxSens, removed |-> pxRemoved]
    /\ pxSens' = s
    /\ pxRemoved' = PixelRemovedAt(px, s)
    /\ UNCHANGED <<px, passVars, batchVars, fileVars, resultVars, resizeVars>>

NextPixel == SlidePixel

SpecPixel == InitPixel /\ [][NextPixel]_vars

\* The claims' conditions on one pixel, written from their wording:
\* sum = 3 * brightness, q = 9 * colorVariance^2, thresholds times 10.
PxSum == px.r + px.g + px.b
PxQ == 3 * (px.r * px.r + px.g * px.g + px.b * px.b) - PxSum * PxSum
PxInEdgeBand ==
  px.x < 10 \/ px.x > px.w - 10 \/ px.y < 10 \/ px.y > px.h - 10
PxGray == px.r = px.g /\ px.g = px.b

\* C16: a pixel removed at the slider position s1 is removed at every
\* s2 >= s1 up to 100: against the directly preceding slider position,
\* and against every higher position.
Thm_C16 ==
  /\ (pxPrev.s <= pxSens /\ pxPrev.removed) => pxRemoved
  /\ (pxSens <= pxPrev.s /\ pxRemoved) => pxPrev.removed
  /\ pxRemoved => \A s2 \in pxSens..MaxSensitivity : PixelRemovedAt(px, s2)

\* The slider went up one step and the pixel, kept before, is now removed.
Wit_C16 ==
  /\ pxPrev.s < pxSens /\ ~pxPrev.removed /\ pxRemoved

\* The solid-background detection and the high-detail override of C17.
C17Solid ==
  /\ 10 * PxSum > 3 * (1800 - 8 * pxSens)
  /\ 100 * PxQ < 9 * (300 + 4 * pxSens) * (300 + 4 * pxSens)
C17Detail == PxQ > 9 * 60 * 60

\* C17: whenever the solid-background detection and the override
\* colorVariance > 60 hold together the pixel is kept, and the sensitivity
\* is above 75.
Thm_C17 ==
  (C17Solid /\ C17Detail) => (~pxRemoved /\ pxSens > 75)

\* A pixel (255,255,127), variance 60.34, at sensitivity 76: both hold.
Wit_C17 ==
  /\ C17Solid /\ C17Detail /\ ~pxRemoved
  /\ pxSens = 76 /\ px.r = 255 /\ px.g = 255 /\ px.b = 127

\* C19: a gray pixel outside the edge band is removed exactly when
\* v > 180 - 0.8s or v < 50 + 0.3s; the grays 80..100 outside the edge band
\* are kept at every sensitivity.
Thm_C19 ==
  (PxGray /\ ~PxInEdgeBand) =>
    /\ pxRemoved <=> (10 * px.r > 1800 - 8 * pxSens
                        \/ 10 * px.r < 500 + 3 * pxSens)
    /\ (80 <= px.r /\ px.r <= 100) => ~pxRemoved

\* Gray 90 outside the edge band kept at sensitivity 100, where both its
\* neighbours in brightness outside the gap, 79 and 101, are removed.
Wit_C19 ==
  /\ PxGray /\ ~PxInEdgeBand /\ px.r = 90 /\ pxSens = 100 /\ ~pxRemoved
  /\ PixelRemovedAt([px EXCEPT !.r = 79, !.g = 79, !.b = 79], 100)
  /\ PixelRemovedAt([px EXCEPT !.r = 101, !.g = 101, !.b = 101], 100)

(***************************************************************************)
(* The same program on images narrower or lower than two edge margins:     *)
(* one short of 20 in one direction and 20 in the other, and strips one    *)
(* pixel wide that are longer than 20.                                     *)
(***************************************************************************)
NarrowShapes ==
  {<<2 * EdgeMargin - 1, 2 * EdgeMargin>>, <<2 * EdgeMargin, 2 * EdgeMargin - 1>>}

StripShapes == {<<1, 2 * EdgeMargin + 1>>, <<2 * EdgeMargin + 1, 1>>}

\* Light gray: at sensitivity 0 only the edge rule can detect it.
NarrowContents == {[kind |-> "uniform", c |-> 4]}

\* The strips also with a cycle through the palette.
StripContents == NarrowContents \cup {[kind |-> "cycle", c |-> 1]}

NarrowImages ==
  {ImageOf(sh[1], sh[2], content, sh[1] * sh[2] * 4) :
      sh \in NarrowShapes, content \in NarrowContents}
    \cup {ImageOf(sh[1], sh[2], content, sh[1] * sh[2] * 4) :
             sh \in StripShapes, content \in StripContents}

InitNarrow == image \in NarrowImages /\ InitState

SpecNarrow == InitNarrow /\ [][Next]_vars

\* The edge band as C12 words it.
C12InBand(x, y) ==
  x < 10 \/ x > image.w - 10 \/ y < 10 \/ y > image.h - 10

C12Small == image.w < 20 \/ image.h < 20

\* C12: in a pass over an image with width < 20 or height < 20 every pixel
\* lies in the edge band, for the claim's formula and for the test of line
\* 108 alike (so a light gray only the edge rule detects is cleared
\* everywhere), and the pass goes on to its end: while in the loop a next
\* step is possible, and at the end every byte has been visited and the
\* buffer has its length.
Thm_C12 ==
  C12Small =>
    /\ (pc = "loop" /\ i > 0) =>
          LET k == (i - 4) \div 4
          IN  /\ C12InBand(PixelX(k), PixelY(k))
              /\ isEdge(PixelX(k), PixelY(k), width, height)
    /\ pc = "loop" => ENABLED (PixelStep \/ LoopExit)
    /\ pc = "done" =>
          /\ i = image.len /\ Len(data) = image.len
          /\ \A k \in Pixels :
               /\ C12InBand(PixelX(k), PixelY(k))
               /\ isEdge(PixelX(k), PixelY(k), width, height)
          /\ (captured = 0 /\ image.kind = "uniform" /\ image.c = 4)
                => cleared = Pixels

\* The finished pass at sensitivity 0 over the 19x20 light gray image:
\* the pixel at (10,10), inside the inner square of a 20x20 image, is
\* cleared here.
Wit_C12 ==
  /\ pc = "done" /\ image.w = 19 /\ image.h = 20 /\ captured = 0
  /\ image.kind = "uniform" /\ image.c = 4
  /\ (10 * 19 + 10) \in cleared
  /\ OutA(10 * 19 + 10) = 0

(***************************************************************************)
(* The pass run once more on the buffer it produced, with the same width,  *)
(* height and sensitivity.                                                 *)
(***************************************************************************)
AgainImages ==
  {img \in Images : img.w <= MaxSmallDim}
     \cup {ImageOf(2 * EdgeMargin, 2 * EdgeMargin, [kind |-> "cycle", c |-> 1],
                   2 * EdgeMargin * 2 * EdgeMargin * 4)}

InitAgain == image \in AgainImages /\ InitState

\* Lines 65-135 entered again with the data array the finished pass left.
PassAgain ==
  /\ pc = "done"
  /\ source = "file"
  /\ pc' = "loop"
  /\ source' = "output"
  /\ prev' = [sens |-> captured, out |-> data, cleared |-> cleared]
  /\ i' = 0
  /\ cleared' = {}
  /\ UNCHANGED <<image, sensitivity, processingMode, captured, width, height,
                 data, todo>>
  /\ UNCHANGED <<pixelVars, batchVars, fileVars, resultVars, resizeVars>>

NextAgain ==
  \/ Next
  \/ PassAgain

SpecAgain == InitAgain /\ [][NextAgain]_vars

\* Pixels whose alpha byte is 0 in buffer d.
ZeroAlpha(d) == {k \in Pixels : d[4 * k + 4] = 0}

\* C18: a pass on the output of a pass, with the same width, height and
\* sensitivity, ends with the buffer it started from; the set of zero-alpha
\* pixels after the second pass is the set after the first.
Thm_C18 ==
  (pc = "done" /\ source = "output") =>
    /\ prev.sens = captured
    /\ data = prev.out
    /\ ZeroAlpha(data) = ZeroAlpha(prev.out)
    /\ cleared = prev.cleared

\* A second pass over the 20x20 palette cycle finished; the first had
\* cleared some pixels and kept some.
Wit_C18 ==
  /\ pc = "done" /\ source = "output"
  /\ image.w = 20 /\ image.h = 20
  /\ prev.cleared # {} /\ prev.cleared # Pixels
  /\ ZeroAlpha(prev.out) # ZeroAlpha(DecodedPixels(image))

(***************************************************************************)
(* A batch: handleProcessImages starts one removeBackground invocation per *)
(* selected image and awaits them all.  Each invocation is a promise that  *)
(* img.onload and the toBlob callback settle; the handlers of different    *)
(* invocations run in any order, each one to completion.                   *)
(***************************************************************************)
\* What the selected files decode to; a file that passes isImageFile by its
\* name need not decode at all.
BatchContents ==
  {ImageOf(2, 1, [kind |-> "uniform", c |-> 1], 8),
   ImageOf(2, 1, [kind |-> "uniform", c |-> 3], 8),
   ImageOf(1, 2, [kind |-> "cycle", c |-> 5], 8)}

BatchFiles ==
  [decodes : {TRUE}, img : BatchContents]
     \cup [decodes : {FALSE}, img : {ImageOf(2, 1, [kind |-> "uniform", c |-> 1], 8)}]

\* Lines 34-37: the selection, 1..MaxBatch image files.
Selections ==
  UNION {[1..n -> BatchFiles] : n \in 1..MaxBatch}

InitBatch ==
  /\ image \in {ImageOf(1, 1, [kind |-> "uniform", c |-> 1], 4)}
  /\ PassInit /\ PixelIdle /\ FileIdle /\ ResultIdle /\ ResizeIdle
  /\ images \in Selections
  /\ isProcessing = FALSE
  /\ processedImages = <<>>
  /\ jobs = <<>>
  /\ order = <<>>

\* Variant: every invocation is handed the last image of the selection.
JobImageLast(k) == images[Len(images)]

\* Line 172: images.map(image => removeBackground(image)).
JobImage(k) == images[k]

\* Lines 46-135, 138: what the canvas of an invocation holds after the pass
\* over file f at the sensitivity of the closure.
ProcessedPixels(f, s) == PassFrom(DecodedPixels(f.img), 0, f.img.w, f.img.h, s)

\* Lines 166-172, 40-44, 162: the button, enabled while not processing.
handleProcessBatch ==
  /\ ~isProcessing
  /\ Len(images) # 0
  /\ isProcessing' = TRUE
  /\ processedImages' = <<>>
  /\ captured' = sensitivity
  /\ jobs' = [k \in 1..Len(images) |->
                [file |-> JobImage(k), st |-> "loading", out |-> <<>>]]
  /\ order' = <<>>
  /\ UNCHANGED <<image, sensitivity, processingMode, pc, width, height, data,
                 i, todo, cleared, prev, source, images>>
  /\ UNCHANGED <<pixelVars, fileVars, resultVars, resizeVars>>

\* Lines 46-144: img.onload of invocation k: own canvas, the pass, and
\* toBlob, which encodes the canvas as it is now.
JobOnload(k) ==
  /\ jobs[k].st = "loading"
  /\ jobs[k].file.decodes
  /\ jobs' = [jobs EXCEPT ![k].st = "encoding",
                          ![k].out = ProcessedPixels(jobs[k].file, captured)]
  /\ UNCHANGED <<passVars, pixelVars, fileVars, resultVars, resizeVars, images, isProcessing,
                 processedImages, order>>

\* Line 162 without an onerror handler: the image does not load and
\* nothing settles the promise.
JobLoadError(k) ==
  /\ jobs[k].st = "loading"
  /\ ~jobs[k].file.decodes
  /\ jobs' = [jobs EXCEPT ![k].st = "failed"]
  /\ UNCHANGED <<passVars, pixelVars, fileVars, resultVars, resizeVars, images, isProcessing,
                 processedImages, order>>

\* Lines 144-158: the toBlob callback with a blob resolves the promise.
JobBlob(k) ==
  /\ jobs[k].st = "encoding"
  /\ jobs' = [jobs EXCEPT ![k].st = "resolved"]
  /\ order' = Append(order, k)
  /\ UNCHANGED <<passVars, pixelVars, fileVars, resultVars, resizeVars, images, isProcessing,
                 processedImages>>

\* Lines 144-145: the toBlob callback with null; the if has no else.
JobBlobNull(k) ==
  /\ jobs[k].st = "encoding"
  /\ jobs' = [jobs EXCEPT ![k].st = "noblob"]
  /\ UNCHANGED <<passVars, pixelVars, fileVars, resultVars, resizeVars, images, isProcessing,
                 processedImages, order>>

ResultOf(k) == [original |-> jobs[k].file, processed |-> jobs[k].out]

\* Variant: the results in the order the promises resolved.
PromiseAllByCompletion == [n \in 1..Len(order) |-> ResultOf(order[n])]

\* Line 171: Promise.all yields the values in the order of its argument.
PromiseAll == [k \in 1..Len(jobs) |-> ResultOf(k)]

\* Lines 171-180: all promises resolved; the await continues.
BatchDone ==
  /\ isProcessing
  /\ \A k \in 1..Len(jobs) : jobs[k].st = "resolved"
  /\ processedImages' = PromiseAll
  /\ isProcessing' = FALSE
  /\ UNCHANGED <<passVars, pixelVars, fileVars, resultVars, resizeVars, images, jobs, order>>

\* A step of a running batch.
BatchStep ==
  \/ \E k \in 1..Len(jobs) :
        JobOnload(k) \/ JobLoadError(k) \/ JobBlob(k) \/ JobBlobNull(k)
  \/ BatchDone

NextBatch ==
  \/ SetSensitivity
  \/ handleProcessBatch
  \/ \E k \in 1..Len(jobs) : JobOnload(k)
  \/ \E k \in 1..Len(jobs) : JobLoadError(k)
  \/ \E k \in 1..Len(jobs) : JobBlob(k)
  \/ \E k \in 1..Len(jobs) : JobBlobNull(k)
  \/ BatchDone

SpecBatch == InitBatch /\ [][NextBatch]_vars

\* C13: whatever the order in which the handlers of a batch run, every
\* invocation works on its own image, and its output, from the moment its
\* onload handler has run, is and stays the output of the pass over that
\* image alone.
Thm_C13 ==
  /\ \A k \in 1..Len(jobs) :
       /\ jobs[k].file = images[k]
       /\ jobs[k].st \in {"encoding", "resolved", "noblob"} =>
            jobs[k].out = PassFrom(DecodedPixels(images[k].img), 0,
                                   images[k].img.w, images[k].img.h, captured)
       /\ jobs[k].st \in {"loading", "failed"} => jobs[k].out = <<>>
  /\ Len(jobs) \in {0, Len(images)}

\* Two different images, the second loaded and encoded before the first,
\* both resolved with different outputs.
Wit_C13 ==
  /\ Len(jobs) = 2 /\ order = <<2, 1>>
  /\ images[1].img # images[2].img
  /\ jobs[1].out # jobs[2].out
  /\ jobs[1].out # DecodedPixels(images[1].img)

\* C14: when handleProcessImages has completed for N images,
\* processedImages has N entries and entry i carries images[i] as original
\* and the output computed from images[i], in whatever order the
\* invocations finished.
Thm_C14 ==
  (~isProcessing /\ jobs # <<>>) =>
    /\ Len(processedImages) = Len(images)
    /\ \A n \in 1..Len(images) :
         /\ processedImages[n].original = images[n]
         /\ processedImages[n].processed =
              PassFrom(DecodedPixels(images[n].img), 0,
                       images[n].img.w, images[n].img.h, captured)

\* A completed batch of two different images of which the second finished
\* first.
Wit_C14 ==
  /\ ~isProcessing /\ Len(processedImages) = 2 /\ order = <<2, 1>>
  /\ images[1] # images[2]
  /\ processedImages[1].original = images[1]
  /\ processedImages[1].processed # processedImages[2].processed

\* C20: a started batch always comes to set isProcessing back to false.
\* Only the continuation of the await resets the flag, so while the flag is
\* set some handler of the batch or that continuation must be able to run.
Claim_C20 ==
  isProcessing => ENABLED BatchStep

(***************************************************************************)
(* File compression (FileCompression.tsx): compressFile reads the selected *)
(* file and dispatches on the extension of its name; a PDF goes to         *)
(* compressPDFServer, which posts it to the route /api/pdf-compress        *)
(* (app/api/pdf-compress/route.ts), and falls back to compressPDF.         *)
(*                                                                         *)
(* What the server, pdf.js and pdf-lib return is outside the component:    *)
(* the size of each such result is any size, and of its bytes nothing is   *)
(* known (bytes <<>>).  The bytes of the selected file and of the output   *)
(* of compressGenericFile are kept as they are.                            *)
(***************************************************************************)
\* File names, as the parts file.name.split('.') yields.
FileNames ==
  {<<"report", "pdf">>, <<"scan", "PDF">>, <<"photo", "jpg">>,
   <<"logo", "PNG">>, <<"notes", "txt">>, <<"archive", "tar", "gz">>,
   <<"pdf">>}

\* String.prototype.toLowerCase on the last parts above.
ToLowerCase(str) ==
  CASE str = "PDF" -> "pdf"
    [] str = "PNG" -> "png"
    [] OTHER -> str

\* Line 746: file.name.split('.').pop()?.toLowerCase().
fileExtension(f) == ToLowerCase(f.name[Len(f.name)])

ImageExtensions == {"jpg", "jpeg", "png", "gif", "webp"}

PdfCompressRoute == "/api/pdf-compress"

\* Lines 795-802, 836-843: the FormData body carries the file itself.
PdfRequest(f) == [url |-> PdfCompressRoute, method |-> "POST", file |-> f.name]

\* Contents of n bytes of which only the number matters.
Blank(n) == [j \in 1..n |-> 0]

\* Sizes a result of the server or of a library may have.
ResultSizes == 0..(MaxPdfSize + 1)

originalSize == Len(fcBytes)

\* `compressed_${originalFile.name}` (lines 812, 848, 923, 929, 1020, 1030,
\* 1038, 1093).
CompressedName(f) == <<"compressed_">> \o f.name

\* new File([...], `compressed_${originalFile.name}`, ...) around a result
\* of the given origin and size.
CompressedFile(kind, size) ==
  [name |-> CompressedName(fcFile), kind |-> kind, size |-> size, bytes |-> <<>>]

\* Lines 923, 1038: new File([arrayBuffer], ...), the bytes that were read.
OriginalFile ==
  [name |-> CompressedName(fcFile), kind |-> "original",
   size |-> originalSize, bytes |-> fcBytes]

Max(a, b) == IF a >= b THEN a ELSE b
Min(a, b) == IF a <= b THEN a ELSE b

\* Line 936: Math.min(level * 9, 90).
targetReduction(level) == Min(level * 9, 90)

\* Lines 875 and 942: imageQuality, times 1000.
imageQuality(level) ==
  IF level = 1 THEN 300
  ELSE Max(100, 1000 - 8 * targetReduction(level))

\* Lines 876 and 943: scaleFactor, times 1000.
scaleFactor(level) ==
  IF level = 1 THEN 600
  ELSE Max(300, 1000 - 6 * targetReduction(level))

\* Line 1011: compressedSize >= originalSize
\*            || actualReduction < targetReduction * 0.5.
NotEffective(compressedSize, level) ==
  \/ compressedSize >= originalSize
  \/ 200 * (originalSize - compressedSize) < targetReduction(level) * originalSize

\* Lines 1079-1080: Math.floor(byteLength * Math.max(0.1, 1 - level / 15)).
genericTargetSize(n, level) ==
  IF 10 * (15 - level) < 15 THEN n \div 10
  ELSE (n * (15 - level)) \div 15

\* Lines 1076-1089: every step-th byte of the input, targetSize of them.
compressGenericBytes(bytes, level) ==
  LET n == Len(bytes)
      targetSize == genericTargetSize(n, level)
      step == IF targetSize = 0 THEN 0 ELSE (n + targetSize - 1) \div targetSize
  IN  [j \in 1..targetSize |-> bytes[Min((j - 1) * step, n - 1) + 1]]

InitCompress ==
  /\ image \in {ImageOf(1, 1, [kind |-> "uniform", c |-> 1], 4)}
  /\ PassInit /\ PixelIdle /\ BatchIdle /\ ResizeIdle
  /\ fcFile \in [name : FileNames]
  /\ fcBytes \in {Blank(n) : n \in 1..MaxPdfSize}
  /\ compressionLevel = InitialCompressionLevel
  /\ fcLevel = InitialCompressionLevel
  /\ fcPc = "idle"
  /\ requests = {}
  /\ fcResult = NoResult
  /\ fcHistory = NoHistory

\* Lines 1193-1198: the level slider.
SetCompressionLevel ==
  /\ \E l \in MinCompressionLevel..MaxCompressionLevel : compressionLevel' = l
  /\ compressionLevel' # compressionLevel
  /\ UNCHANGED <<fcFile, fcLevel, fcPc, requests, resultVars>>
  /\ UNCHANGED <<passVars, pixelVars, batchVars, resizeVars>>

\* Lines 1099-1108, 739-741, 788: the button (disabled while compressing)
\* starts compressFile, whose closure holds the level of this render.
handleCompress ==
  /\ fcPc \in {"idle", "done"}
  /\ fcLevel' = compressionLevel
  /\ fcPc' = "reading"
  /\ fcResult' = NoResult
  /\ fcHistory' = NoHistory
  /\ UNCHANGED <<fcFile, compressionLevel, requests, fcBytes>>
  /\ UNCHANGED <<passVars, pixelVars, batchVars, resizeVars>>

\* Lines 742-786 with 793-802: reader.onload dispatches on the extension;
\* for a PDF compressPDFServer builds the form and calls fetch at once.
readerOnload ==
  /\ fcPc = "reading"
  /\ IF fileExtension(fcFile) = "pdf"
     THEN /\ requests' = requests \cup {PdfRequest(fcFile)}
          /\ fcPc' = "fetching"
     ELSE /\ requests' = requests
          /\ fcPc' = IF fileExtension(fcFile) \in ImageExtensions
                     THEN "compressImage" ELSE "compressGenericFile"
  /\ UNCHANGED <<fcFile, compressionLevel, fcLevel, resultVars>>
  /\ UNCHANGED <<passVars, pixelVars, batchVars, resizeVars>>

\* Lines 811-815: the response is OK; its blob is the compressed file.
serverResponseOk ==
  /\ fcPc = "fetching"
  /\ fcPc' = "done"
  /\ \E size \in ResultSizes : fcResult' = CompressedFile("server", size)
  /\ fcHistory' = [fcHistory EXCEPT !.server = "ok"]
  /\ UNCHANGED <<fcFile, compressionLevel, fcLevel, requests, fcBytes>>
  /\ UNCHANGED <<passVars, pixelVars, batchVars, resizeVars>>

\* Lines 804-809, 816-820 with 823-843 and 936-943: the response is not OK
\* or fetch rejects; compressPDF takes over.  At level 1 it posts the file
\* again, at the other levels it sets quality and scale and renders.
serverFailed ==
  /\ fcPc = "fetching"
  /\ IF fcLevel = 1
     THEN /\ requests' = requests \cup {PdfRequest(fcFile)}
          /\ fcPc' = "fetchingLevel1"
          /\ fcHistory' = [fcHistory EXCEPT !.server = "failed",
                                            !.client = "running"]
     ELSE /\ requests' = requests
          /\ fcPc' = "rendering"
          /\ fcHistory' = [fcHistory EXCEPT !.server = "failed",
                                            !.client = "running",
                                            !.quality = imageQuality(fcLevel),
                                            !.scale = scaleFactor(fcLevel)]
  /\ UNCHANGED <<fcFile, compressionLevel, fcLevel, fcBytes, fcResult>>
  /\ UNCHANGED <<passVars, pixelVars, batchVars, resizeVars>>

\* Lines 845-860: the level 1 response is OK and smaller than the input.
level1ResponseSmaller ==
  /\ fcPc = "fetchingLevel1"
  /\ fcPc' = "done"
  /\ \E size \in 0..(originalSize - 1) :
        fcResult' = CompressedFile("server", size)
  /\ fcHistory' = [fcHistory EXCEPT !.client = "returned"]
  /\ UNCHANGED <<fcFile, compressionLevel, fcLevel, requests, fcBytes>>
  /\ UNCHANGED <<passVars, pixelVars, batchVars, resizeVars>>

\* Lines 845-876: it is not OK, not smaller, or fetch rejects; the pages
\* are rendered with the level 1 settings.
level1ResponseUnusable ==
  /\ fcPc = "fetchingLevel1"
  /\ fcPc' = "rendering"
  /\ fcHistory' = [fcHistory EXCEPT !.quality = imageQuality(fcLevel),
                                    !.scale = scaleFactor(fcLevel)]
  /\ UNCHANGED <<fcFile, compressionLevel, fcLevel, requests, fcBytes, fcResult>>
  /\ UNCHANGED <<passVars, pixelVars, batchVars, resizeVars>>

\* Lines 869-878, 948-956, 910-913, 998-1001 with 1034-1042: getPdfJs,
\* getDocument, PDFDocument.create or save throws; the outer catch returns
\* the bytes that were read.
renderThrows ==
  /\ fcPc = "rendering"
  /\ fcPc' = "done"
  /\ fcResult' = OriginalFile
  /\ fcHistory' = [fcHistory EXCEPT !.client = "threw"]
  /\ UNCHANGED <<fcFile, compressionLevel, fcLevel, requests, fcBytes>>
  /\ UNCHANGED <<passVars, pixelVars, batchVars, resizeVars>>

\* Lines 880-933 and 959-1011: the page loop and save.  A page whose
\* rendering throws is logged and left out (lines 905-907, 992-994).  At
\* level 1 a result that is not smaller is replaced by the original; at the
\* other levels a result that is not effective leads to the re-save.
renderSaved ==
  /\ fcPc = "rendering"
  /\ \E compressedSize \in ResultSizes, pagesFailed \in BOOLEAN :
       /\ fcHistory' = [fcHistory EXCEPT !.pagesFailed = pagesFailed,
                                         !.compressedSize = compressedSize,
                                         !.client =
                                            IF fcLevel # 1 /\ NotEffective(compressedSize, fcLevel)
                                            THEN "running" ELSE "returned"]
       /\ IF fcLevel = 1
          THEN /\ fcPc' = "done"
               /\ fcResult' = IF compressedSize >= originalSize
                              THEN OriginalFile
                              ELSE CompressedFile("rendered", compressedSize)
          ELSE IF NotEffective(compressedSize, fcLevel)
          THEN /\ fcPc' = "resaving"
               /\ fcResult' = fcResult
          ELSE /\ fcPc' = "done"
               /\ fcResult' = CompressedFile("rendered", compressedSize)
  /\ UNCHANGED <<fcFile, compressionLevel, fcLevel, requests, fcBytes>>
  /\ UNCHANGED <<passVars, pixelVars, batchVars, resizeVars>>

\* Lines 1013-1024: the re-save by pdf-lib is smaller than the input.
resaveSmaller ==
  /\ fcPc = "resaving"
  /\ fcPc' = "done"
  /\ \E size \in 0..(originalSize - 1) :
        fcResult' = CompressedFile("resaved", size)
  /\ fcHistory' = [fcHistory EXCEPT !.client = "returned"]
  /\ UNCHANGED <<fcFile, compressionLevel, fcLevel, requests, fcBytes>>
  /\ UNCHANGED <<passVars, pixelVars, batchVars, resizeVars>>

\* Lines 1019, 1027-1033: it is not smaller; the if has no else and the
\* rendered bytes are returned.
resaveNotSmaller ==
  /\ fcPc = "resaving"
  /\ fcPc' = "done"
  /\ fcResult' = CompressedFile("rendered", fcHistory.compressedSize)
  /\ fcHistory' = [fcHistory EXCEPT !.client = "returned"]
  /\ UNCHANGED <<fcFile, compressionLevel, fcLevel, requests, fcBytes>>
  /\ UNCHANGED <<passVars, pixelVars, batchVars, resizeVars>>

\* Lines 1013-1017 with 1034-1042: PDFDocument.load or save throws.
resaveThrows ==
  /\ fcPc = "resaving"
  /\ fcPc' = "done"
  /\ fcResult' = OriginalFile
  /\ fcHistory' = [fcHistory EXCEPT !.client = "threw"]
  /\ UNCHANGED <<fcFile, compressionLevel, fcLevel, requests, fcBytes>>
  /\ UNCHANGED <<passVars, pixelVars, batchVars, resizeVars>>

\* Lines 1045-1072, 763-772: compressImage encodes the canvas and
\* compressFile resolves.
compressImageDone ==
  /\ fcPc = "compressImage"
  /\ fcPc' = "done"
  /\ \E size \in ResultSizes : fcResult' = CompressedFile("image", size)
  /\ UNCHANGED <<fcFile, compressionLevel, fcLevel, requests, fcBytes, fcHistory>>
  /\ UNCHANGED <<passVars, pixelVars, batchVars, resizeVars>>

\* Lines 1074-1097, 775-784: compressGenericFile.
compressGenericFile ==
  /\ fcPc = "compressGenericFile"
  /\ fcPc' = "done"
  /\ LET out == compressGenericBytes(fcBytes, fcLevel)
     IN  fcResult' = [name |-> CompressedName(fcFile), kind |-> "generic",
                      size |-> Len(out), bytes |-> out]
  /\ UNCHANGED <<fcFile, compressionLevel, fcLevel, requests, fcBytes, fcHistory>>
  /\ UNCHANGED <<passVars, pixelVars, batchVars, resizeVars>>

\* The steps of compressPDFServer and compressPDF.
PdfStep ==
  \/ serverResponseOk
  \/ serverFailed
  \/ level1ResponseSmaller
  \/ level1ResponseUnusable
  \/ renderThrows
  \/ renderSaved
  \/ resaveSmaller
  \/ resaveNotSmaller
  \/ resaveThrows

NextCompress ==
  \/ SetCompressionLevel
  \/ handleCompress
  \/ readerOnload
  \/ serverResponseOk
  \/ serverFailed
  \/ level1ResponseSmaller
  \/ level1ResponseUnusable
  \/ renderThrows
  \/ renderSaved
  \/ resaveSmaller
  \/ resaveNotSmaller
  \/ resaveThrows
  \/ compressImageDone
  \/ compressGenericFile

SpecCompress == InitCompress /\ [][NextCompress]_vars

\* C15: no operation of the application ever sends the content of a
\* user's file to a server: at no time has a request carrying a file been
\* made.
Claim_C15 ==
  requests = {}

\* C21: for every input PDF and every level, the file compressPDF returns
\* is never larger than the input.
Claim_C21 ==
  (fcPc = "done" /\ fcHistory.client # "none") =>
    fcResult.size <= originalSize

\* C22: for all levels a < b the JPEG quality and the page scale that
\* compressPDF uses at b are at most those it uses at a: the settings of a
\* rendering in progress are at most those of every lower level and at
\* least those of every higher level.
Claim_C22 ==
  fcPc = "rendering" =>
    \A other \in MinCompressionLevel..MaxCompressionLevel :
      /\ other < fcLevel =>
            /\ fcHistory.quality <= imageQuality(other)
            /\ fcHistory.scale <= scaleFactor(other)
      /\ fcLevel < other =>
            /\ imageQuality(other) <= fcHistory.quality
            /\ scaleFactor(other) <= fcHistory.scale

IsPdf == fileExtension(fcFile) = "pdf"

\* C23: for a PDF, the server result is used when the response is OK;
\* otherwise compressPDF runs; when compressPDF fails, as a whole or for a
\* page, the file returned holds exactly the original bytes; the file
\* returned is always named compressed_<original name>; and no failure of
\* the server or of the rendering leaves the promise unsettled.
Claim_C23 ==
  IsPdf =>
    /\ fcPc = "done" =>
         /\ fcResult.name = <<"compressed_">> \o fcFile.name
         /\ fcHistory.server = "ok" =>
              (fcResult.kind = "server" /\ fcHistory.client = "none")
         /\ fcHistory.server = "failed" => fcHistory.client # "none"
         /\ (fcHistory.client = "threw" \/ fcHistory.pagesFailed) =>
              (fcResult.bytes = fcBytes /\ fcResult.size = Len(fcBytes))
    /\ fcPc \in {"fetching", "fetchingLevel1", "rendering", "resaving"} =>
         ENABLED PdfStep

(***************************************************************************)
(* compressFile on a file that is neither a PDF nor an image, with its     *)
(* bytes.                                                                  *)
(***************************************************************************)
GenericNames == {f \in FileNames :
                   LET ext == ToLowerCase(f[Len(f)])
                   IN  ext # "pdf" /\ ext \notin ImageExtensions}

ByteSample == {0, MaxChannel}

InitGeneric ==
  /\ image \in {ImageOf(1, 1, [kind |-> "uniform", c |-> 1], 4)}
  /\ PassInit /\ PixelIdle /\ BatchIdle /\ ResizeIdle
  /\ fcFile \in [name : GenericNames]
  /\ fcBytes \in UNION {[1..n -> ByteSample] : n \in 0..MaxFileLen}
  /\ compressionLevel = InitialCompressionLevel
  /\ fcLevel = InitialCompressionLevel
  /\ fcPc = "idle"
  /\ requests = {}
  /\ fcResult = NoResult
  /\ fcHistory = NoHistory

NextGeneric ==
  \/ SetCompressionLevel
  \/ handleCompress
  \/ readerOnload
  \/ compressGenericFile

SpecGeneric == InitGeneric /\ [][NextGeneric]_vars

\* C24: the file compressGenericFile produces holds the byte sequence of
\* the input: no byte is dropped or altered.
Claim_C24 ==
  (fcPc = "done" /\ fcResult.kind = "generic") => fcResult.bytes = fcBytes

(***************************************************************************)
(* Image compression (ImageCompression.tsx): the resize of lines 35-50.    *)
(* width, height and aspectRatio are JavaScript numbers; they are kept     *)
(* here as exact fractions n/d with d > 0, so that the model computes what *)
(* the assignments of lines 37-47 say without the rounding of a double.    *)
(***************************************************************************)
Frac(k) == [n |-> k, d |-> 1]
FracDiv(a, b) == [n |-> a.n * b.d, d |-> a.d * b.n]
FracMul(a, b) == [n |-> a.n * b.n, d |-> a.d * b.d]
FracGt(a, b) == a.n * b.d > b.n * a.d

\* Variant: line 42 multiplies by the aspect ratio.
resizeTimes(size, mw, mh) ==
  LET aspectRatio == FracDiv(Frac(size.width), Frac(size.height))
      tooWide == FracGt(Frac(size.width), Frac(mw))
      width1 == IF tooWide THEN Frac(mw) ELSE Frac(size.width)
      height1 == IF tooWide THEN FracMul(width1, aspectRatio)
                 ELSE Frac(size.height)
      tooHigh == FracGt(height1, Frac(mh))
      height2 == IF tooHigh THEN Frac(mh) ELSE height1
      width2 == IF tooHigh THEN FracMul(height2, aspectRatio) ELSE width1
  IN  [width |-> width2, height |-> height2]

\* Lines 37-47: width and height after the two ifs.
resize(size, mw, mh) ==
  LET aspectRatio == FracDiv(Frac(size.width), Frac(size.height))
      tooWide == FracGt(Frac(size.width), Frac(mw))
      width1 == IF tooWide THEN Frac(mw) ELSE Frac(size.width)
      height1 == IF tooWide THEN FracDiv(width1, aspectRatio)
                 ELSE Frac(size.height)
      tooHigh == FracGt(height1, Frac(mh))
      height2 == IF tooHigh THEN Frac(mh) ELSE height1
      width2 == IF tooHigh THEN FracMul(height2, aspectRatio) ELSE width1
  IN  [width |-> width2, height |-> height2]

\* Values typed into the two number inputs (lines 154-170).
Limits == 0..MaxLimit

InitResize ==
  /\ image \in {ImageOf(1, 1, [kind |-> "uniform", c |-> 1], 4)}
  /\ PassInit /\ PixelIdle /\ BatchIdle /\ FileIdle /\ ResultIdle
  /\ imgSize \in [width : 1..MaxImageSide, height : 1..MaxImageSide]
  /\ maxWidth = InitialMaxWidth
  /\ maxHeight = InitialMaxHeight
  /\ canvasSize = NoSize

\* Line 157.
setMaxWidth ==
  /\ \E v \in Limits : maxWidth' = v
  /\ maxWidth' # maxWidth
  /\ UNCHANGED <<imgSize, maxHeight, canvasSize>>
  /\ UNCHANGED <<passVars, pixelVars, batchVars, fileVars, resultVars>>

\* Line 169.
setMaxHeight ==
  /\ \E v \in Limits : maxHeight' = v
  /\ maxHeight' # maxHeight
  /\ UNCHANGED <<imgSize, maxWidth, canvasSize>>
  /\ UNCHANGED <<passVars, pixelVars, batchVars, fileVars, resultVars>>

\* Lines 35-50: img.onload of compressImage computes the dimensions from
\* the limits of the render that started it.
compressImageOnload ==
  /\ LET size == resize(imgSize, maxWidth, maxHeight)
     IN  canvasSize' = [width |-> size.width, height |-> size.height,
                        maxWidth |-> maxWidth, maxHeight |-> maxHeight]
  /\ canvasSize' # canvasSize
  /\ UNCHANGED <<imgSize, maxWidth, maxHeight>>
  /\ UNCHANGED <<passVars, pixelVars, batchVars, fileVars, resultVars>>

NextResize ==
  \/ setMaxWidth
  \/ setMaxHeight
  \/ compressImageOnload

SpecResize == InitResize /\ [][NextResize]_vars

\* C25: for an image of positive dimensions (w, h) and positive limits the
\* computed width and height are at most the limits and at most w and h,
\* width * h = height * w, and they are (w, h) when the image fits.
Thm_C25 ==
  (canvasSize # NoSize /\ canvasSize.maxWidth > 0 /\ canvasSize.maxHeight > 0) =>
    LET wd == canvasSize.width
        ht == canvasSize.height
    IN  /\ wd.d > 0 /\ ht.d > 0
        /\ wd.n <= canvasSize.maxWidth * wd.d
        /\ ht.n <= canvasSize.maxHeight * ht.d
        /\ wd.n <= imgSize.width * wd.d
        /\ ht.n <= imgSize.height * ht.d
        /\ wd.n * imgSize.height * ht.d = ht.n * imgSize.width * wd.d
        /\ (imgSize.width <= canvasSize.maxWidth
              /\ imgSize.height <= canvasSize.maxHeight)
             => (wd.n = imgSize.width * wd.d /\ ht.n = imgSize.height * ht.d)

\* An image too wide and, after the first step, still too high: both ifs
\* ran, the height is the limit and the width is a proper fraction below
\* its limit.
Wit_C25 ==
  /\ canvasSize # NoSize
  /\ imgSize.width > canvasSize.maxWidth
  /\ canvasSize.maxHeight > 0
  /\ canvasSize.height.n = canvasSize.maxHeight * canvasSize.height.d
  /\ canvasSize.width.n < canvasSize.maxWidth * canvasSize.width.d
  /\ canvasSize.width.n % canvasSize.width.d # 0

=============================================================================
